---- MODULE Spec2Model ----
(***************************************************************************)
(* tap-bunny: the OAuth token lifecycle (BunnyAuthenticator) and the       *)
(* GraphQL page fetcher (BunnyStream) of src/tap_bunny.                    *)
(*                                                                         *)
(* Time is counted in minutes since midnight. A handler that can raise or  *)
(* that reads an answer of a remote endpoint is an operator returning the  *)
(* SET of its outcomes, one per answer the endpoint may give; an outcome   *)
(* is a record [w, ok, ...] with the world after the call (w), whether the *)
(* call returned (ok) or raised, and what it returned.                     *)
(***************************************************************************)
EXTENDS Integers, Sequences, FiniteSets, TLC

VARIABLES
  now,       \* the local clock, datetime.now()
  config,    \* Tap.config: the settings loaded at start-up
  cfgFile,   \* the config file that update_config rewrites
  inst,      \* the authenticator instances, by the key SingletonMeta keeps them under
  posts,     \* credential-exchange POSTs issued so far
  authEnv,   \* the ways the authorization endpoint may answer in this run
  fileOk,    \* whether the config file can be read and rewritten in this run
  sync,      \* the entity sync in progress
  obs,       \* the last call made and what it returned
  thr,       \* the threads that call the authenticator concurrently
  granted    \* history: the <<token, expiry>> pairs the endpoint has delivered

vars == <<now, config, cfgFile, authEnv, fileOk, inst, posts, sync, obs, thr, granted>>

(***************************************************************************)
(* Bounds of the model.                                                    *)
(***************************************************************************)
StartTime == 55     \* the clock at start-up (minutes since midnight)
MaxTicks == 5       \* clock advances of one minute
MaxPosts == 3       \* credential-exchange POSTs in one run
ShortLife == 3      \* an expires_in below the 5 minute margin
LongLife == 7       \* an expires_in above the 5 minute margin
MaxSkew == 1        \* minutes by which created_at may lie before the local clock

(***************************************************************************)
(* Program constants.                                                      *)
(***************************************************************************)
Margin == 5         \* timedelta(minutes=5)
NoToken == 0        \* None (or an empty string): a falsy access token
NoExpiry == <<>>    \* None: no token_expires_at

(***************************************************************************)
(* datetime.isoformat / datetime.fromisoformat: the expiry is stored as    *)
(* text, here <<hours, minutes>>, and parsed again for every comparison.   *)
(***************************************************************************)
isoformat(t) == <<t \div 60, t % 60>>

fromisoformat(s) == s[1] * 60 + s[2]

(***************************************************************************)
(* The authorization endpoint. A shape says how it answers; the token it   *)
(* issues is numbered by the POST that it answers, so that every issued    *)
(* token is a fresh value.                                                 *)
(***************************************************************************)
TokenKeys == {"access_token", "expires_in", "created_at"}

AuthShapes ==
       { [status |-> 200, json |-> TRUE, keys |-> TokenKeys, expires_in |-> e, skew |-> k]
           : e \in {ShortLife, LongLife}, k \in 0..MaxSkew }
  \cup { [status |-> 500, json |-> TRUE, keys |-> TokenKeys, expires_in |-> LongLife, skew |-> 0],
         [status |-> 200, json |-> FALSE, keys |-> {}, expires_in |-> LongLife, skew |-> 0] }
  \cup { [status |-> 200, json |-> TRUE, keys |-> TokenKeys \ {k}, expires_in |-> LongLife, skew |-> 0]
           : k \in TokenKeys }

token_endpoint(shape, postNo, clock) ==
  [status |-> shape.status,
   json   |-> shape.json,
   body   |-> [k \in shape.keys |->
                 CASE k = "access_token" -> postNo
                   [] k = "expires_in"   -> shape.expires_in
                   [] k = "created_at"   -> clock - shape.skew]]

(***************************************************************************)
(* TapBunny.update_config: read the config file, update it with the new    *)
(* fields, write it back.                                                  *)
(***************************************************************************)
\* a rewrite that keeps nothing of the file it read
update_config_replace(file, new_fields) == new_fields

update_config(file, new_fields) ==
  [k \in DOMAIN file \cup DOMAIN new_fields |->
     IF k \in DOMAIN new_fields THEN new_fields[k] ELSE file[k]]

(***************************************************************************)
(* BunnyAuthenticator. An instance is [created, access_token, expires_at]  *)
(* and the history field came_with.                                        *)
(***************************************************************************)
Get(d, key, default) == IF key \in DOMAIN d THEN d[key] ELSE default

Uncreated ==
  [created |-> FALSE, access_token |-> NoToken, expires_at |-> NoExpiry,
   came_with |-> NoExpiry]

Raise(w) == [w |-> w, ok |-> FALSE, ret |-> NoToken]

Return(w, v) == [w |-> w, ok |-> TRUE, ret |-> v]

\* update_access_token when the endpoint answers r
update_access_token_on(w, k, r) ==
  LET w1 == [w EXCEPT !.posts = @ + 1]
  IN IF r.status >= 400 THEN Raise(w1)
     ELSE IF ~r.json THEN Raise(w1)
     ELSE IF "access_token" \notin DOMAIN r.body THEN Raise(w1)
     ELSE
       LET w2 == [w1 EXCEPT !.inst[k].access_token = r.body["access_token"],
                           \* history: the expiry this token was delivered with
                           !.inst[k].came_with =
                              IF {"created_at", "expires_in"} \subseteq DOMAIN r.body
                              THEN isoformat(r.body["created_at"] + r.body["expires_in"])
                              ELSE NoExpiry]
       IN IF "created_at" \notin DOMAIN r.body THEN Raise(w2)
          ELSE IF "expires_in" \notin DOMAIN r.body THEN Raise(w2)
          ELSE
            LET expires_at == isoformat(r.body["created_at"] + r.body["expires_in"])
                w3 == [w2 EXCEPT !.inst[k].expires_at = expires_at]
            IN IF ~w.fileOk THEN Raise(w3)
               ELSE Return([w3 EXCEPT !.cfgFile =
                              update_config(@, [access_token |-> w3.inst[k].access_token,
                                                token_expires_at |-> expires_at])],
                           NoToken)

update_access_token(w, k) ==
  { update_access_token_on(w, k, token_endpoint(shape, w.posts + 1, w.now))
      : shape \in w.authEnv }

is_token_valid(w, k) ==
  IF w.inst[k].access_token = NoToken \/ w.inst[k].expires_at = NoExpiry
  THEN FALSE
  ELSE w.now < fromisoformat(w.inst[k].expires_at)

\* access_token that swallows a failed refresh and hands out what is stored
access_token_swallow(w, k) ==
  IF w.inst[k].access_token = NoToken \/ w.inst[k].expires_at = NoExpiry
     \/ w.now + Margin >= fromisoformat(w.inst[k].expires_at)
  THEN { Return(o.w, o.w.inst[k].access_token) : o \in update_access_token(w, k) }
  ELSE { Return(w, w.inst[k].access_token) }

\* access_token that hands out any stored token without looking at its expiry
access_token_cached(w, k) ==
  IF w.inst[k].access_token = NoToken
  THEN UNION { IF o.ok THEN { Return(o.w, o.w.inst[k].access_token) } ELSE { o }
                 : o \in update_access_token(w, k) }
  ELSE { Return(w, w.inst[k].access_token) }

\* access_token that tries a failed refresh a second time
access_token_retry(w, k) ==
  IF w.inst[k].access_token = NoToken \/ w.inst[k].expires_at = NoExpiry
     \/ w.now + Margin >= fromisoformat(w.inst[k].expires_at)
  THEN UNION { IF o.ok THEN { Return(o.w, o.w.inst[k].access_token) }
               ELSE { IF o2.ok THEN Return(o2.w, o2.w.inst[k].access_token) ELSE o2
                        : o2 \in update_access_token(o.w, k) }
                 : o \in update_access_token(w, k) }
  ELSE { Return(w, w.inst[k].access_token) }

\* access_token without the 5 minutes: refreshes only an expired token
access_token_no_margin(w, k) ==
  IF w.inst[k].access_token = NoToken \/ w.inst[k].expires_at = NoExpiry
  THEN { IF o.ok THEN Return(o.w, o.w.inst[k].access_token) ELSE o
           : o \in update_access_token(w, k) }
  ELSE IF w.now >= fromisoformat(w.inst[k].expires_at)
  THEN { IF o.ok THEN Return(o.w, o.w.inst[k].access_token) ELSE o
           : o \in update_access_token(w, k) }
  ELSE { Return(w, w.inst[k].access_token) }

\* access_token without the cache: refreshes on every call
access_token_eager(w, k) ==
  { IF o.ok THEN Return(o.w, o.w.inst[k].access_token) ELSE o
      : o \in update_access_token(w, k) }

access_token(w, k) ==
  IF w.inst[k].access_token = NoToken \/ w.inst[k].expires_at = NoExpiry
  THEN { IF o.ok THEN Return(o.w, o.w.inst[k].access_token) ELSE o
           : o \in update_access_token(w, k) }
  ELSE IF w.now + Margin >= fromisoformat(w.inst[k].expires_at)
  THEN { IF o.ok THEN Return(o.w, o.w.inst[k].access_token) ELSE o
           : o \in update_access_token(w, k) }
  ELSE { Return(w, w.inst[k].access_token) }

\* handle_401_response that keeps a token that is_token_valid
handle_401_response_lazy(w, k, status_code) ==
  IF status_code = 401 /\ ~is_token_valid(w, k)
  THEN update_access_token(w, k)
  ELSE { Return(w, NoToken) }

\* handle_401_response that swallows a failed refresh
handle_401_response_swallow(w, k, status_code) ==
  IF status_code = 401
  THEN { Return(o.w, NoToken) : o \in update_access_token(w, k) }
  ELSE { Return(w, NoToken) }

handle_401_response(w, k, status_code) ==
  IF status_code = 401
  THEN update_access_token(w, k)
  ELSE { Return(w, NoToken) }

\* a constructor that exchanges credentials whatever the config holds
BunnyAuthenticator_init_always(w, k) ==
  LET tok == Get(w.config, "access_token", NoToken)
      exp == Get(w.config, "token_expires_at", NoExpiry)
      w1  == [w EXCEPT !.inst[k] = [created |-> FALSE, access_token |-> tok,
                                    expires_at |-> exp, came_with |-> exp]]
  IN update_access_token(w1, k)

BunnyAuthenticator_init(w, k) ==
  LET tok == Get(w.config, "access_token", NoToken)
      exp == Get(w.config, "token_expires_at", NoExpiry)
      w1  == [w EXCEPT !.inst[k] = [created |-> FALSE, access_token |-> tok,
                                    expires_at |-> exp, came_with |-> exp]]
  IN IF tok = NoToken \/ exp = NoExpiry \/ w.now >= fromisoformat(exp)
     THEN update_access_token(w1, k)
     ELSE { Return(w1, NoToken) }

(***************************************************************************)
(* SingletonMeta.__call__ (singer_sdk): the class keeps its one instance;  *)
(* a constructor that raises leaves none behind.                           *)
(***************************************************************************)
SingletonMeta_call(w, k) ==
  IF w.inst[k].created
  THEN { Return(w, NoToken) }
  ELSE { IF o.ok THEN Return([o.w EXCEPT !.inst[k].created = TRUE], NoToken)
                 ELSE Raise([o.w EXCEPT !.inst[k] = Uncreated])
           : o \in BunnyAuthenticator_init(w, k) }

(***************************************************************************)
(* BunnyStream                                                             *)
(***************************************************************************)
StreamIds == {"accounts", "subscriptions", "features", "feature_usages"}

InstanceKeys == {"BunnyAuthenticator"} \cup StreamIds

\* an authenticator of its own for every stream
authenticator_per_stream(s) == s

\* the key of the instance that stream s reads its token from
authenticator(s) == "BunnyAuthenticator"

\* self.authenticator.access_token
stream_access_token(w, s) ==
  UNION { IF o.ok THEN access_token(o.w, authenticator(s)) ELSE {o}
            : o \in SingletonMeta_call(w, authenticator(s)) }

\* self.authenticator.handle_401_response(response)
stream_handle_401(w, s, status_code) ==
  UNION { IF o.ok THEN handle_401_response(o.w, authenticator(s), status_code) ELSE {o}
            : o \in SingletonMeta_call(w, authenticator(s)) }

\* an is_token_valid that exchanges credentials when the token is not valid
stream_is_token_valid_refreshing(w, s) ==
  IF is_token_valid(w, authenticator(s)) THEN { Return(w, TRUE) }
  ELSE { [o EXCEPT !.ret = o.ok, !.ok = TRUE] : o \in update_access_token(w, authenticator(s)) }

\* authenticator.is_token_valid() on the authenticator that stream s holds
stream_is_token_valid(w, s) ==
  { Return(w, is_token_valid(w, authenticator(s))) }

(***************************************************************************)
(* JSON values, tagged by type. A dict is a function from its keys.        *)
(***************************************************************************)
JNull == [t |-> "null"]

JBool(b) == [t |-> "bool", v |-> b]

JStr(x) == [t |-> "str", v |-> x]

JList(q) == [t |-> "list", v |-> q]

JDict(f) == [t |-> "dict", v |-> f]

EmptyDict == JDict(<<>>)

\* Python truthiness
Truthy(j) ==
  CASE j.t = "null" -> FALSE
    [] j.t = "bool" -> j.v
    [] j.t = "str"  -> j.v # 0
    [] j.t = "list" -> Len(j.v) > 0
    [] j.t = "dict" -> DOMAIN j.v # {}

NoCursor == 0       \* None: no next page token

\* a page token as the paginator keeps it: a JSON string, or None
AsToken(j) == IF j.t = "str" THEN j.v ELSE NoCursor

(***************************************************************************)
(* Stream names, as the words and underscores they are written with, and   *)
(* str.capitalize / str.lower on those words.                              *)
(***************************************************************************)
StreamName(s) ==
  CASE s = "accounts"       -> <<"accounts">>
    [] s = "subscriptions"  -> <<"subscriptions">>
    [] s = "features"       -> <<"features">>
    [] s = "feature_usages" -> <<"feature", "_", "usages">>

capitalize(word) ==
  CASE word = "accounts"      -> "Accounts"
    [] word = "subscriptions" -> "Subscriptions"
    [] word = "features"      -> "Features"
    [] word = "feature"       -> "Feature"
    [] word = "usages"        -> "Usages"

lower(word) ==
  CASE word = "Accounts"      -> "accounts"
    [] word = "Subscriptions" -> "subscriptions"
    [] word = "Features"      -> "features"
    [] word = "Feature"       -> "feature"
    [] word = "Usages"        -> "usages"

NotUnderscore(x) == x # "_"

\* "".join(word.capitalize() for word in name.split("_")), first letter lowered
camel_field_name(name) ==
  LET words == SelectSeq(name, NotUnderscore)
      caps  == [i \in 1..Len(words) |-> capitalize(words[i])]
  IN <<lower(caps[1])>> \o Tail(caps)

\* the stream classes: those of streams.py that override the methods of
\* BunnyStream, and streams that inherit them all
StreamClass(s) ==
  CASE s = "accounts"       -> "AccountsStream"
    [] s = "subscriptions"  -> "SubscriptionsStream"
    [] s = "features"       -> "BunnyStream"
    [] s = "feature_usages" -> "BunnyStream"

(***************************************************************************)
(* The GraphQL endpoint. It holds NumPages pages of PageSize records; the  *)
(* cursor after page p is p. A shape says in which form it answers.        *)
(***************************************************************************)
NumPages == 2
PageSize == 2

Item(n) == JDict([id |-> n])

PageItems(p) ==
  IF p <= NumPages THEN [i \in 1..PageSize |-> Item((p - 1) * PageSize + i)] ELSE <<>>

BaseShape ==
  [status |-> 200, json |-> TRUE, top |-> "data", key |-> "camel", node |-> "dict",
   container |-> "nodes", sparse |-> FALSE, pageInfo |-> "honest"]

PageShapes ==
       { BaseShape }
  \cup { [BaseShape EXCEPT !.status = c, !.top = "nodata"] : c \in {401, 500} }
  \cup { [BaseShape EXCEPT !.json = FALSE] }
  \cup { [BaseShape EXCEPT !.top = x] : x \in {"errors", "errors+data", "nodata", "datanull"} }
  \cup { [BaseShape EXCEPT !.key = x] : x \in {"snake", "none"} }
  \cup { [BaseShape EXCEPT !.node = "null"] }
  \cup { [BaseShape EXCEPT !.container = x] : x \in {"edges", "both", "none", "nodesnull"} }
  \cup { [BaseShape EXCEPT !.container = x, !.sparse = TRUE] : x \in {"nodes", "edges"} }
  \cup { [BaseShape EXCEPT !.pageInfo = x]
           : x \in {"absent", "null", "stop_cursor", "stop_nocursor", "more_null",
                    "more_missing"} }

Interleave(q) ==
  [i \in 1..(2 * Len(q)) |-> IF i % 2 = 1 THEN q[(i + 1) \div 2] ELSE JNull]

Edge(item) == JDict([node |-> item])

PageInfoOf(shape, p) ==
  CASE shape.pageInfo = "honest" ->
         JDict([hasNextPage |-> JBool(p < NumPages),
                endCursor |-> IF p <= NumPages THEN JStr(p) ELSE JNull])
    [] shape.pageInfo = "null"          -> JNull
    [] shape.pageInfo = "stop_cursor"   ->
         JDict([hasNextPage |-> JBool(FALSE), endCursor |-> JStr(p)])
    [] shape.pageInfo = "stop_nocursor" -> JDict([hasNextPage |-> JBool(FALSE)])
    [] shape.pageInfo = "more_null"     ->
         JDict([hasNextPage |-> JBool(TRUE), endCursor |-> JNull])
    [] shape.pageInfo = "more_missing"  -> JDict([hasNextPage |-> JBool(TRUE)])

NodeOf(shape, p) ==
  LET items == IF shape.sparse THEN Interleave(PageItems(p)) ELSE PageItems(p)
      \* next to a nodes array the edges come in the opposite order
      edges == IF shape.container = "both"
               THEN [i \in 1..Len(items) |-> Edge(items[Len(items) + 1 - i])]
               ELSE [i \in 1..Len(items) |-> Edge(items[i])]
      keys  == (CASE shape.container = "nodes"     -> {"nodes"}
                  [] shape.container = "nodesnull" -> {"nodes"}
                  [] shape.container = "edges"     -> {"edges"}
                  [] shape.container = "both"      -> {"nodes", "edges"}
                  [] shape.container = "none"      -> {"totalCount"})
               \cup (IF shape.pageInfo = "absent" THEN {} ELSE {"pageInfo"})
  IN IF shape.node = "null" THEN JNull
     ELSE JDict([k \in keys |->
            CASE k = "nodes"      -> IF shape.container = "nodesnull" THEN JNull
                                     ELSE JList(items)
              [] k = "edges"      -> JList(edges)
              [] k = "totalCount" -> JStr(Len(items))
              [] k = "pageInfo"   -> PageInfoOf(shape, p)])

DataOf(shape, s, p) ==
  LET fields == CASE shape.key = "camel" -> {camel_field_name(StreamName(s))}
                  [] shape.key = "snake" -> {StreamName(s)}
                  [] shape.key = "none"  -> {<<"viewer">>}
  IN JDict([f \in fields |-> NodeOf(shape, p)])

BodyOf(shape, s, p) ==
  LET keys == CASE shape.top = "data"        -> {"data"}
                [] shape.top = "errors"      -> {"errors"}
                [] shape.top = "errors+data" -> {"errors", "data"}
                [] shape.top = "nodata"      -> {"message"}
                [] shape.top = "datanull"    -> {"data"}
  IN JDict([k \in keys |->
       CASE k = "data"    -> IF shape.top = "datanull" THEN JNull ELSE DataOf(shape, s, p)
         [] k = "errors"  -> JList(<<JDict([message |-> JStr(1)])>>)
         [] k = "message" -> JStr(1)])

\* the answer to a request of stream s: the page after the cursor it carries
graphql_endpoint(shape, s, request) ==
  [status |-> shape.status,
   json   |-> shape.json,
   body   |-> BodyOf(shape, s, Get(request.variables, "after", NoCursor) + 1)]

(***************************************************************************)
(* The methods of the streams. A method that reads a response returns      *)
(* [ok, err, ...]: err names the exception that ended it.                  *)
(***************************************************************************)
NotNull(j) == j.t # "null"

Nodes(edges) == [i \in 1..Len(edges) |-> edges[i].v["node"]]

Yielded(q) == [ok |-> TRUE, err |-> "", records |-> q]

\* raised after the records q were yielded
Raised(e, q) == [ok |-> FALSE, err |-> e, records |-> q]

\* get_graphql_variables that never passes the cursor on
BunnyStream_get_graphql_variables_no_after(next_page_token) ==
  [ok |-> TRUE, err |-> "", variables |-> [sort |-> "id"]]

BunnyStream_get_graphql_variables(next_page_token) ==
  [ok |-> TRUE, err |-> "",
   variables |-> IF next_page_token # NoCursor
                 THEN [after |-> next_page_token, sort |-> "id"]
                 ELSE [sort |-> "id"]]

\* AccountsStream.get_graphql_variables(self, next_page_token) is called by
\* prepare_request with (context, next_page_token): one argument too many
AccountsStream_get_graphql_variables(next_page_token) ==
  [ok |-> FALSE, err |-> "TypeError", variables |-> <<>>]

\* the body of AccountsStream.get_graphql_variables, as a call with the one
\* argument of its signature would run it
AccountsStream_variables(next_page_token) ==
  [first |-> 100, after |-> IF next_page_token # NoCursor THEN next_page_token ELSE "null"]

get_graphql_variables(s, next_page_token) ==
  IF StreamClass(s) = "AccountsStream"
  THEN AccountsStream_get_graphql_variables(next_page_token)
  ELSE BunnyStream_get_graphql_variables(next_page_token)

\* a lookup under the stream name as it is configured
field_name_as_configured(s) == StreamName(s)

\* the key under which parse_response looks for the stream's data
field_name(s) == camel_field_name(StreamName(s))

BunnyStream_parse_response(s, response) ==
  IF response.status # 200 THEN Raised("RuntimeError: HTTP request failed", <<>>)
  ELSE IF ~response.json THEN Raised("RuntimeError: Failed to parse JSON response", <<>>)
  ELSE
    LET json_data == response.body IN
    IF "errors" \in DOMAIN json_data.v THEN Raised("RuntimeError: GraphQL errors occurred", <<>>)
    ELSE IF json_data.t # "dict" THEN Raised("RuntimeError: Expected dictionary response", <<>>)
    ELSE IF "data" \notin DOMAIN json_data.v
      THEN Raised("RuntimeError: No 'data' field in response", <<>>)
    ELSE IF json_data.v["data"].t = "null" THEN Raised("RuntimeError: Response data is null", <<>>)
    ELSE
      LET data == json_data.v["data"]
      IN
      IF field_name(s) \notin DOMAIN data.v
      THEN Raised("RuntimeError: No data found for stream", <<>>)
      ELSE
        LET stream_data == data.v[field_name(s)]
            nodes == IF "nodes" \in DOMAIN stream_data.v
                     THEN stream_data.v["nodes"]
                     ELSE JList(Nodes(stream_data.v["edges"].v))
        IN
        IF stream_data.t = "null" THEN Raised("RuntimeError: Stream data is null", <<>>)
        ELSE IF ~("nodes" \in DOMAIN stream_data.v) /\ ~("edges" \in DOMAIN stream_data.v)
          THEN Raised("RuntimeError: No 'nodes' or 'edges' found in stream data", <<>>)
        ELSE IF nodes.t = "null" THEN Raised("RuntimeError: Nodes array is null", <<>>)
        ELSE Yielded(SelectSeq(nodes.v, NotNull))

\* extract_jsonpath("$.data.subscriptions.nodes[*]", response.json())
SubscriptionsStream_parse_response(s, response) ==
  IF ~response.json THEN Raised("JSONDecodeError", <<>>)
  ELSE
    LET body == response.body
        data == IF "data" \in DOMAIN body.v THEN body.v["data"] ELSE JNull
        node == IF data.t = "dict" /\ camel_field_name(StreamName(s)) \in DOMAIN data.v
                THEN data.v[camel_field_name(StreamName(s))] ELSE JNull
        nodes == IF node.t = "dict" /\ "nodes" \in DOMAIN node.v
                 THEN node.v["nodes"] ELSE JNull
    IN Yielded(IF nodes.t = "list" THEN nodes.v ELSE <<>>)

AccountsStream_parse_response(s, response) ==
  IF ~response.json THEN Raised("JSONDecodeError", <<>>)
  ELSE
    LET resp_json == response.body
        data == Get(resp_json.v, "data", EmptyDict)
        node == Get(data.v, StreamName(s), EmptyDict)
        edges == Get(node.v, "edges", JList(<<>>))
    IN
    IF "errors" \in DOMAIN resp_json.v THEN Raised("RuntimeError: GraphQL query failed", <<>>)
    ELSE IF data.t # "dict" THEN Raised("AttributeError", <<>>)
    ELSE IF node.t # "dict" THEN Raised("AttributeError", <<>>)
    ELSE IF edges.t # "list" THEN Raised("TypeError", <<>>)
    ELSE Yielded([i \in 1..Len(edges.v) |-> Get(edges.v[i].v, "node", EmptyDict)])

parse_response(s, response) ==
  CASE StreamClass(s) = "BunnyStream"         -> BunnyStream_parse_response(s, response)
    [] StreamClass(s) = "SubscriptionsStream" -> SubscriptionsStream_parse_response(s, response)
    [] StreamClass(s) = "AccountsStream"      -> AccountsStream_parse_response(s, response)

Token(c) == [ok |-> TRUE, err |-> "", token |-> c]

NoTokenBecause(e) == [ok |-> FALSE, err |-> e, token |-> NoCursor]

\* a get_next_page_token that returns endCursor without asking hasNextPage
BunnyStream_get_next_page_token_any_cursor(s, response) ==
  IF ~response.json THEN Token(NoCursor)
  ELSE
    LET data == response.body
        d1 == Get(data.v, "data", EmptyDict)
        stream_data == Get(d1.v, StreamName(s), EmptyDict)
        page_info == Get(stream_data.v, "pageInfo", EmptyDict)
    IN
    IF d1.t # "dict" THEN Token(NoCursor)
    ELSE IF stream_data.t # "dict" THEN Token(NoCursor)
    ELSE IF Truthy(page_info)
      THEN Token(AsToken(Get(page_info.v, "endCursor", JNull)))
    ELSE Token(NoCursor)

\* every exception is caught and None returned
BunnyStream_get_next_page_token(s, response) ==
  IF ~response.json THEN Token(NoCursor)
  ELSE
    LET data == response.body
        d1 == Get(data.v, "data", EmptyDict)
        stream_data == Get(d1.v, StreamName(s), EmptyDict)
        page_info == Get(stream_data.v, "pageInfo", EmptyDict)
    IN
    IF d1.t # "dict" THEN Token(NoCursor)
    ELSE IF stream_data.t # "dict" THEN Token(NoCursor)
    ELSE IF Truthy(page_info) /\ Truthy(Get(page_info.v, "hasNextPage", JNull))
      THEN Token(AsToken(Get(page_info.v, "endCursor", JNull)))
    ELSE Token(NoCursor)

\* data["data"]["subscriptions"]["pageInfo"], page_info["hasNextPage"], page_info["endCursor"]
SubscriptionsStream_get_next_page_token(s, response) ==
  IF ~response.json THEN NoTokenBecause("JSONDecodeError")
  ELSE
    LET data == response.body
        field == camel_field_name(StreamName(s))
    IN
    IF "data" \notin DOMAIN data.v THEN NoTokenBecause("KeyError")
    ELSE IF data.v["data"].t # "dict" THEN NoTokenBecause("TypeError")
    ELSE IF field \notin DOMAIN data.v["data"].v THEN NoTokenBecause("KeyError")
    ELSE IF data.v["data"].v[field].t # "dict" THEN NoTokenBecause("TypeError")
    ELSE IF "pageInfo" \notin DOMAIN data.v["data"].v[field].v THEN NoTokenBecause("KeyError")
    ELSE
      LET page_info == data.v["data"].v[field].v["pageInfo"] IN
      IF page_info.t # "dict" THEN NoTokenBecause("TypeError")
      ELSE IF "hasNextPage" \notin DOMAIN page_info.v THEN NoTokenBecause("KeyError")
      ELSE IF ~Truthy(page_info.v["hasNextPage"]) THEN Token(NoCursor)
      ELSE IF "endCursor" \notin DOMAIN page_info.v THEN NoTokenBecause("KeyError")
      ELSE Token(AsToken(page_info.v["endCursor"]))

AccountsStream_get_next_page_token(s, response) ==
  IF ~response.json THEN NoTokenBecause("JSONDecodeError")
  ELSE
    LET resp_json == response.body
        data == Get(resp_json.v, "data", EmptyDict)
        node == Get(data.v, StreamName(s), EmptyDict)
        page_info == Get(node.v, "pageInfo", EmptyDict)
    IN
    IF data.t # "dict" THEN NoTokenBecause("AttributeError")
    ELSE IF node.t # "dict" THEN NoTokenBecause("AttributeError")
    ELSE IF page_info.t # "dict" THEN NoTokenBecause("AttributeError")
    ELSE IF Truthy(Get(page_info.v, "hasNextPage", JNull))
      THEN Token(AsToken(Get(page_info.v, "endCursor", JNull)))
    ELSE Token(NoCursor)

get_next_page_token(s, response) ==
  CASE StreamClass(s) = "BunnyStream"         -> BunnyStream_get_next_page_token(s, response)
    [] StreamClass(s) = "SubscriptionsStream" -> SubscriptionsStream_get_next_page_token(s, response)
    [] StreamClass(s) = "AccountsStream"      -> AccountsStream_get_next_page_token(s, response)

(***************************************************************************)
(* One page fetch: prepare_request, _request_with_backoff, parse_response  *)
(* and get_next_page_token, as the sync loop calls them in turn.           *)
(***************************************************************************)
NoRequest == [token |-> NoToken, variables |-> <<>>]

\* headers["Authorization"] = f"Bearer {self.authenticator.access_token}"
http_headers(w, s) == stream_access_token(w, s)

prepare_request(w, s, next_page_token) ==
  { LET gv == get_graphql_variables(s, next_page_token) IN
    IF ~h.ok THEN [w |-> h.w, ok |-> FALSE, err |-> "token", request |-> NoRequest]
    ELSE IF ~gv.ok THEN [w |-> h.w, ok |-> FALSE, err |-> gv.err, request |-> NoRequest]
    ELSE [w |-> h.w, ok |-> TRUE, err |-> "",
          request |-> [token |-> h.ret, variables |-> gv.variables]]
      : h \in http_headers(w, s) }

\* super()._request_with_backoff: the request is sent and the endpoint answers
\* in one of its shapes; the log entry keeps the request with the answer's shape
send(s, request) ==
  { [sent |-> [token |-> request.token, variables |-> request.variables, shape |-> shape],
     response |-> graphql_endpoint(shape, s, request)]
      : shape \in PageShapes }

NoResponse == [status |-> 0, json |-> FALSE, body |-> JNull]

Responded(w, sends, response) ==
  [w |-> w, ok |-> TRUE, err |-> "", sends |-> sends, response |-> response]

NotResponded(w, e, sends) ==
  [w |-> w, ok |-> FALSE, err |-> e, sends |-> sends, response |-> NoResponse]

\* a retry that sends the request again as it was, with the rejected token
retry_after_401_old_header(w, s, request, first) ==
  UNION { IF ~h.ok
          THEN { NotResponded(h.w, "RuntimeError: Failed to refresh token", <<first.sent>>) }
          ELSE UNION { IF ~t.ok
                       THEN { NotResponded(t.w, "token", <<first.sent>>) }
                       ELSE { Responded(t.w, <<first.sent, second.sent>>, second.response)
                                : second \in send(s, request) }
                         : t \in stream_access_token(h.w, s) }
            : h \in stream_handle_401(w, s, first.response.status) }

\* a retry that sends again but hands back the first response, the 401
retry_after_401_first_response(w, s, request, first) ==
  UNION { IF ~h.ok
          THEN { NotResponded(h.w, "RuntimeError: Failed to refresh token", <<first.sent>>) }
          ELSE UNION { IF ~t.ok
                       THEN { NotResponded(t.w, "token", <<first.sent>>) }
                       ELSE { Responded(t.w, <<first.sent, second.sent>>, first.response)
                                : second \in send(s, [request EXCEPT !.token = t.ret]) }
                         : t \in stream_access_token(h.w, s) }
            : h \in stream_handle_401(w, s, first.response.status) }

\* the retry after a 401: the token is refreshed, the header rebuilt, the
\* request sent again
\* a retry that does not call handle_401_response before it builds the header
retry_after_401_unrefreshed(w, s, request, first) ==
  UNION { IF ~t.ok
          THEN { NotResponded(t.w, "token", <<first.sent>>) }
          ELSE { Responded(t.w, <<first.sent, second.sent>>, second.response)
                   : second \in send(s, [request EXCEPT !.token = t.ret]) }
            : t \in stream_access_token(w, s) }

retry_after_401(w, s, request, first) ==
  UNION { IF ~h.ok
          THEN { NotResponded(h.w, "RuntimeError: Failed to refresh token", <<first.sent>>) }
          ELSE UNION { IF ~t.ok
                       THEN { NotResponded(t.w, "token", <<first.sent>>) }
                       ELSE { Responded(t.w, <<first.sent, second.sent>>, second.response)
                                : second \in send(s, [request EXCEPT !.token = t.ret]) }
                         : t \in stream_access_token(h.w, s) }
            : h \in stream_handle_401(w, s, first.response.status) }

\* a _request_with_backoff that sends again after every status but 200
request_with_backoff_any_error(w, s, request) ==
  UNION { IF first.response.status # 200
          THEN retry_after_401(w, s, request, first)
          ELSE { Responded(w, <<first.sent>>, first.response) }
            : first \in send(s, request) }

request_with_backoff(w, s, request) ==
  UNION { IF first.response.status = 401
          THEN retry_after_401(w, s, request, first)
          ELSE { Responded(w, <<first.sent>>, first.response) }
            : first \in send(s, request) }

Fetched(w, ok, err, sends, records, next) ==
  [w |-> w, ok |-> ok, err |-> err, sends |-> sends, records |-> records, next |-> next]

\* the response is parsed and its records emitted, then the next page token read
decode(w, s, sends, response) ==
  LET parsed == parse_response(s, response)
      token  == get_next_page_token(s, response)
  IN IF ~parsed.ok THEN Fetched(w, FALSE, parsed.err, sends, parsed.records, NoCursor)
     ELSE IF ~token.ok THEN Fetched(w, FALSE, token.err, sends, parsed.records, NoCursor)
     ELSE Fetched(w, TRUE, "", sends, parsed.records, token.token)

fetch_page(w, s, cursor) ==
  UNION { IF ~p.ok THEN { Fetched(p.w, FALSE, p.err, <<>>, <<>>, NoCursor) }
          ELSE { IF ~r.ok THEN Fetched(r.w, FALSE, r.err, r.sends, <<>>, NoCursor)
                 ELSE decode(r.w, s, r.sends, r.response)
                   : r \in request_with_backoff(p.w, s, p.request) }
            : p \in prepare_request(w, s, cursor) }

(***************************************************************************)
(* The state machine.                                                      *)
(***************************************************************************)
World == [now |-> now, config |-> config, cfgFile |-> cfgFile, authEnv |-> authEnv,
          fileOk |-> fileOk, inst |-> inst, posts |-> posts]

PersistedToken == MaxPosts + 1

InitConfigs ==
  { [client_id |-> 1],
    [client_id |-> 1, access_token |-> PersistedToken,
     token_expires_at |-> isoformat(StartTime + LongLife)],
    [client_id |-> 1, access_token |-> PersistedToken,
     token_expires_at |-> isoformat(StartTime)] }

NoSync == [stream |-> "", status |-> "IDLE", cursor |-> NoCursor, requests |-> <<>>,
           emitted |-> <<>>]

NoObs == [op |-> "none", stream |-> "", ok |-> TRUE, ret |-> NoToken,
          posted |-> 0, by |-> "", tok0 |-> NoToken, fresh0 |-> FALSE, err |-> "",
          sends |-> <<>>, records |-> <<>>, next |-> NoCursor, msg |-> <<>>]

\* the stored pair can be handed out as it is: both set, expiry beyond the margin
Fresh(i) ==
  /\ i.access_token # NoToken
  /\ i.expires_at # NoExpiry
  /\ now + Margin < fromisoformat(i.expires_at)

\* the pair that stream s finds stored: the one its authenticator holds or,
\* before that is built, the one the constructor will load from the config
Stored(s) ==
  IF inst[authenticator(s)].created THEN inst[authenticator(s)]
  ELSE [Uncreated EXCEPT !.access_token = Get(config, "access_token", NoToken),
                         !.expires_at = Get(config, "token_expires_at", NoExpiry)]

\* a call on stream s that ended in outcome o
Observe(op, s, o) ==
  [op |-> op, stream |-> s, ok |-> o.ok, ret |-> o.ret,
   posted |-> o.w.posts - posts,
   by |-> IF o.w.posts > posts THEN s ELSE obs.by,
   tok0 |-> Stored(s).access_token,
   fresh0 |-> Fresh(Stored(s)),
   err |-> "", sends |-> <<>>, records |-> <<>>, next |-> NoCursor, msg |-> <<>>]

Init ==
  /\ now = StartTime
  /\ config \in InitConfigs
  /\ cfgFile = config
  /\ authEnv = AuthShapes
  /\ fileOk \in BOOLEAN
  /\ inst = [k \in InstanceKeys |-> Uncreated]
  /\ posts = 0
  /\ sync = NoSync
  /\ obs = NoObs
  /\ thr = <<>>
  /\ granted = {}

Adopt(w) ==
  /\ w.posts <= MaxPosts
  /\ inst' = w.inst
  /\ posts' = w.posts
  /\ cfgFile' = w.cfgFile
  /\ UNCHANGED <<now, config, authEnv, fileOk, thr, granted>>

Tick ==
  /\ now < StartTime + MaxTicks
  /\ now' = now + 1
  /\ obs' = NoObs
  /\ UNCHANGED <<config, cfgFile, authEnv, fileOk, inst, posts, sync, thr, granted>>

\* get_token: a stream reads authenticator.access_token
GetToken(s) ==
  \E o \in stream_access_token(World, s) :
    /\ Adopt(o.w)
    /\ obs' = Observe("get_token", s, o)
    /\ UNCHANGED sync

\* force_refresh: a stream passes a response it received, so after its
\* authenticator was built, to authenticator.handle_401_response
Handle401(s, status_code) ==
  \E o \in stream_handle_401(World, s, status_code) :
    /\ inst[authenticator(s)].created
    /\ Adopt(o.w)
    /\ obs' = Observe("handle_401", s, [o EXCEPT !.ret = status_code])
    /\ UNCHANGED sync

\* the sync of one entity starts: no cursor, nothing emitted
StartSync(s) ==
  /\ sync.status # "RUNNING"
  /\ sync' = [stream |-> s, status |-> "RUNNING", cursor |-> NoCursor,
              requests |-> <<>>, emitted |-> <<>>]
  /\ obs' = NoObs
  /\ UNCHANGED <<now, config, cfgFile, authEnv, fileOk, inst, posts, thr, granted>>

\* the sync loop fetches the page at its cursor, emits the records, and goes on
\* with the next cursor or ends
FetchPage ==
  /\ sync.status = "RUNNING"
  /\ \E o \in fetch_page(World, sync.stream, sync.cursor) :
       /\ Adopt(o.w)
       /\ sync' = [sync EXCEPT
                    !.requests = IF o.sends = <<>> THEN @
                                 ELSE Append(@, Get(o.sends[1].variables, "after", NoCursor)),
                    !.emitted = @ \o o.records,
                    !.cursor = o.next,
                    !.status = IF ~o.ok THEN "FAILED"
                               ELSE IF o.next = NoCursor THEN "DONE" ELSE "RUNNING"]
       /\ obs' = [Observe("fetch_page", sync.stream, [w |-> o.w, ok |-> o.ok, ret |-> NoToken])
                   EXCEPT !.err = o.err, !.sends = o.sends, !.records = o.records,
                          !.next = o.next]

\* the streams that call the authenticator outside a page fetch
Callers == {"subscriptions", "features"}

Next ==
  \/ Tick
  \/ \E s \in Callers : GetToken(s)
  \/ \E s \in Callers : \E c \in {200, 401} : Handle401(s, c)

Spec == Init /\ [][Next]_vars

(***************************************************************************)
(* The syncs of the entities, one after the other, against an              *)
(* authorization endpoint that answers in one way throughout the run.      *)
(***************************************************************************)
InitSync ==
  /\ now = StartTime
  /\ config \in InitConfigs
  /\ cfgFile = config
  /\ authEnv \in { {shape} : shape \in { a \in AuthShapes : a.skew = 0 } }
  /\ fileOk \in BOOLEAN
  /\ inst = [k \in InstanceKeys |-> Uncreated]
  /\ posts = 0
  /\ sync = NoSync
  /\ obs = NoObs
  /\ thr = <<>>
  /\ granted = {}

NextSync ==
  \/ \E s \in StreamIds : StartSync(s)
  \/ FetchPage

SpecSync == InitSync /\ [][NextSync]_vars

(***************************************************************************)
(* The calls on the authenticator against an authorization endpoint that   *)
(* answers in one way throughout the run.                                  *)
(***************************************************************************)
SpecAuth == InitSync /\ [][Next]_vars

(***************************************************************************)
(* The sync of an entity, and handle_401_response called with responses of *)
(* either status.                                                          *)
(***************************************************************************)
NextRetry ==
  \/ NextSync
  \/ \E s \in Callers : \E c \in {200, 401} : Handle401(s, c)

SpecRetry == InitSync /\ [][NextRetry]_vars

(***************************************************************************)
(* Start-up: a stream reads its authenticator property, which builds the   *)
(* authenticator if there is none, at any time of the clock.               *)
(***************************************************************************)
GetAuthenticator(s) ==
  \E o \in SingletonMeta_call(World, authenticator(s)) :
    /\ Adopt(o.w)
    /\ obs' = Observe("authenticator", s, o)
    /\ UNCHANGED sync

NextBuild ==
  \/ Tick
  \/ \E s \in Callers : GetAuthenticator(s)

SpecBuild == Init /\ [][NextBuild]_vars

(***************************************************************************)
(* The calls on the authenticator, is_token_valid among them.              *)
(***************************************************************************)
IsTokenValid(s) ==
  \E o \in stream_is_token_valid(World, s) :
    /\ inst[authenticator(s)].created
    /\ Adopt(o.w)
    /\ obs' = Observe("is_token_valid", s, o)
    /\ UNCHANGED sync

NextValid ==
  \/ Next
  \/ \E s \in Callers : IsTokenValid(s)

SpecValid == InitSync /\ [][NextValid]_vars

(***************************************************************************)
(* The building of requests against an authorization endpoint that may     *)
(* deliver a token whose lifetime is already over on arrival: expires_in   *)
(* is 0, or no more than the time by which created_at lies in the past.    *)
(***************************************************************************)
ExpiredOnArrival ==
  { [status |-> 200, json |-> TRUE, keys |-> TokenKeys, expires_in |-> k, skew |-> k]
      : k \in 0..MaxSkew }

InitStale ==
  /\ now = StartTime
  /\ config \in InitConfigs
  /\ cfgFile = config
  /\ authEnv = ExpiredOnArrival \cup { a \in AuthShapes : a.status = 200 /\ a.json /\ a.keys = TokenKeys }
  /\ fileOk = TRUE
  /\ inst = [k \in InstanceKeys |-> Uncreated]
  /\ posts = 0
  /\ sync = NoSync
  /\ obs = NoObs
  /\ thr = <<>>
  /\ granted = {}

(***************************************************************************)
(* The decoding of one response on its own: every stream is handed the     *)
(* answer of the endpoint to a request for the page after a cursor, in     *)
(* every shape, and parses it as the sync loop does after a send.          *)
(***************************************************************************)
Cursors == 0..NumPages

\* the request for the page after cursor c, as BunnyStream builds it
RequestAfter(c) ==
  [token |-> NoToken, variables |-> BunnyStream_get_graphql_variables(c).variables]

Decode(s, shape, c) ==
  LET sent == [token |-> NoToken, variables |-> RequestAfter(c).variables, shape |-> shape]
      o == decode(World, s, <<sent>>, graphql_endpoint(shape, s, RequestAfter(c)))
  IN /\ obs' = [NoObs EXCEPT !.op = "decode", !.stream = s, !.ok = o.ok, !.err = o.err,
                             !.sends = o.sends, !.records = o.records, !.next = o.next]
     /\ UNCHANGED <<now, config, cfgFile, authEnv, fileOk, inst, posts, sync, thr, granted>>

NextDecode == \E s \in StreamIds : \E shape \in PageShapes : \E c \in Cursors : Decode(s, shape, c)

\* nothing was called yet; decoding needs no token
InitDecode ==
  /\ now = StartTime
  /\ config = [client_id |-> 1]
  /\ cfgFile = config
  /\ authEnv = AuthShapes
  /\ fileOk = TRUE
  /\ inst = [k \in InstanceKeys |-> Uncreated]
  /\ posts = 0
  /\ sync = NoSync
  /\ obs = NoObs
  /\ thr = <<>>
  /\ granted = {}

SpecDecode == InitDecode /\ [][NextDecode]_vars

(***************************************************************************)
(* The building of one request on its own: prepare_request of every stream *)
(* with every page token. obs.next keeps the token that was passed in and  *)
(* obs.sends the request that was built.                                   *)
(***************************************************************************)
PrepareRequest(s, c) ==
  \E o \in prepare_request(World, s, c) :
    /\ Adopt(o.w)
    /\ obs' = [Observe("prepare_request", s, [w |-> o.w, ok |-> o.ok, ret |-> o.request.token])
                EXCEPT !.err = o.err, !.next = c,
                       !.sends = IF o.ok THEN <<o.request>> ELSE <<>>]
    /\ UNCHANGED sync

NextRequest == \E s \in StreamIds : \E c \in Cursors : PrepareRequest(s, c)

SpecRequest == InitSync /\ [][NextRequest]_vars

NextStale ==
  \/ Tick
  \/ NextRequest

SpecStale == InitStale /\ [][NextStale]_vars

(***************************************************************************)
(* The decoding of responses of every status, with and without the page in *)
(* the body.                                                               *)
(***************************************************************************)
StatusShapes ==
  { [BaseShape EXCEPT !.status = c, !.top = x]
      : c \in {200, 201, 204, 401, 404, 500}, x \in {"data", "nodata"} }

NextStatus ==
  \E s \in StreamIds : \E shape \in StatusShapes : \E c \in Cursors : Decode(s, shape, c)

SpecStatus == InitDecode /\ [][NextStatus]_vars

(***************************************************************************)
(* The messages of the errors that BunnyStream.parse_response raises for   *)
(* a status other than 200, for a body that is not JSON and for a body     *)
(* with an errors array. An f-string is the sequence of its parts: every   *)
(* interpolated value with the literal text before it. A response text is  *)
(* the sequence of its characters, each numbered by its position.          *)
(***************************************************************************)
ExcerptLimit == 1000

MaxExcess == 1

MaxErrors == 2

Text(n) == [i \in 1..n |-> i]

BodyLengths == {0, ExcerptLimit - 1, ExcerptLimit, ExcerptLimit + MaxExcess}

JInt(n) == [t |-> "int", v |-> n]

\* str(p) of a path element
str(p) == IF p.t = "int" THEN ToString(p.v) ELSE p.v

RECURSIVE join_reversed(_, _)
\* a join that puts the elements in the opposite order
join_reversed(sep, q) ==
  IF q = <<>> THEN ""
  ELSE IF Len(q) = 1 THEN q[1]
  ELSE join_reversed(sep, Tail(q)) \o sep \o q[1]

RECURSIVE join(_, _)
\* sep.join(q)
join(sep, q) ==
  IF q = <<>> THEN ""
  ELSE IF Len(q) = 1 THEN q[1]
  ELSE q[1] \o sep \o join(sep, Tail(q))

Part(lit, val) == [lit |-> lit, val |-> val]

\* response.text[:1000]
excerpt(text) == SubSeq(text, 1, IF Len(text) < ExcerptLimit THEN Len(text) ELSE ExcerptLimit)

\* the lines that one entry of the errors array adds to the message; a list
\* or a dict is printed whole
error_lines(error) ==
     << Part("- ", IF "message" \in DOMAIN error.v THEN error.v["message"].v
                   ELSE "Unknown error") >>
  \o (IF "path" \in DOMAIN error.v
      THEN << Part("  Path: ",
                   join(".", [i \in 1..Len(error.v["path"].v) |-> str(error.v["path"].v[i])])) >>
      ELSE <<>>)
  \o (IF "locations" \in DOMAIN error.v
      THEN << Part("  Locations: ", error.v["locations"]) >> ELSE <<>>)
  \o (IF "extensions" \in DOMAIN error.v
      THEN << Part("  Extensions: ", error.v["extensions"]) >> ELSE <<>>)

RECURSIVE errors_lines(_)
errors_lines(errors) ==
  IF errors = <<>> THEN <<>> ELSE error_lines(Head(errors)) \o errors_lines(Tail(errors))

\* the message of the RuntimeError that BunnyStream.parse_response raises
\* before it looks at the data; <<>> when it raises none of the three
BunnyStream_error_message(response) ==
  IF response.status # 200
  THEN << Part("HTTP request failed with status code ", response.status),
          Part(": ", response.text) >>
  ELSE IF ~response.json
  THEN << Part("Failed to parse JSON response: ", "JSONDecodeError"),
          Part("\nResponse text: ", excerpt(response.text)) >>
  ELSE
    LET json_data == response.body IN
    IF "errors" \in DOMAIN json_data.v
    THEN    << Part("GraphQL errors occurred:\n", "") >>
         \o errors_lines(json_data.v["errors"].v)
         \o (IF "query" \in DOMAIN json_data.v
             THEN << Part("\nQuery: ", json_data.v["query"]) >> ELSE <<>>)
         \o (IF "variables" \in DOMAIN json_data.v
             THEN << Part("Variables: ", json_data.v["variables"]) >> ELSE <<>>)
    ELSE <<>>

\* the entries of an errors array: every combination of the four keys
ErrorPaths ==
  { << JStr("accounts"), JInt(3), JStr("name") >>, << JStr("viewer") >> }

ErrorEntry(keys, path) ==
  JDict([k \in keys |->
      CASE k = "message"    -> JStr("Not found")
        [] k = "path"       -> JList(path)
        [] k = "locations"  -> JList(<< JDict([line |-> JInt(1), column |-> JInt(2)]) >>)
        [] k = "extensions" -> JDict([code |-> JStr("NOT_FOUND")])])

ErrorEntries ==
  { ErrorEntry(keys, path) : keys \in SUBSET {"message", "path", "locations", "extensions"},
                             path \in ErrorPaths }

\* an errors array: any entry, alone or followed by entries with a message and
\* a path
ErrorArrays ==
  { << e >> \o [i \in 1..n |->
                  ErrorEntry({"message", "path"}, << JStr("accounts"), JInt(3), JStr("name") >>)]
      : e \in ErrorEntries, n \in 0..(MaxErrors - 1) }

\* the json of the request for the page after cursor c (prepare_request)
RequestJson(s, c) ==
  [query |-> JStr(s), variables |-> JDict(BunnyStream_get_graphql_variables(c).variables)]

\* whether the body echoes a query and variables, and whose
Echoes == {"none", "request", "other"}

GraphQLErrorBody(errors, echo, request) ==
  JDict(CASE echo = "none"    -> [errors |-> JList(errors)]
          [] echo = "request" -> [errors |-> JList(errors), query |-> request.query,
                                  variables |-> request.variables]
          [] echo = "other"   -> [errors |-> JList(errors), query |-> JStr("normalized"),
                                  variables |-> EmptyDict])

\* the statuses other than 200 that an answer may have
OtherStatuses == {201, 204, 401, 404, 500}

ErrorResponses(s, c) ==
       { [status |-> st, json |-> FALSE, text |-> Text(n), body |-> JNull]
           : st \in OtherStatuses \cup {200}, n \in BodyLengths }
  \cup { [status |-> 200, json |-> TRUE, text |-> <<>>,
          body |-> GraphQLErrorBody(errors, echo, RequestJson(s, c))]
           : errors \in ErrorArrays, echo \in Echoes }

BaseStreams == { s \in StreamIds : StreamClass(s) = "BunnyStream" }

\* parse_response of a stream that keeps BunnyStream's, on the response to
\* the request for the page after cursor c
RaiseError(s, c, response) ==
  /\ obs' = [NoObs EXCEPT !.op = "parse_response", !.stream = s, !.ok = FALSE,
               !.next = c,
               !.sends = << [request |-> RequestJson(s, c), response |-> response] >>,
               !.msg = BunnyStream_error_message(response)]
  /\ UNCHANGED <<now, config, cfgFile, authEnv, fileOk, inst, posts, sync, thr, granted>>

NextErrors ==
  \E s \in BaseStreams : \E c \in {NoCursor, NumPages} : \E response \in ErrorResponses(s, c) :
     RaiseError(s, c, response)

SpecErrors == InitDecode /\ [][NextErrors]_vars

(***************************************************************************)
(* Concurrent callers. The authenticator takes no lock, so the statements  *)
(* of access_token and update_access_token of different threads interleave *)
(* between any two reads or writes of _access_token and _expires_at. Each  *)
(* thread keeps the response it received and the expiry it last read or    *)
(* wrote; a get_token ends "done" with the token it returned.              *)
(***************************************************************************)
NumThreads == 2

ThreadIds == 1..NumThreads

Idle == [pc |-> "idle", op |-> "", resp |-> <<>>, seen |-> NoExpiry, ret |-> NoToken]

Single == "BunnyAuthenticator"

InitConc ==
  /\ now = StartTime
  /\ config = [client_id |-> 1, access_token |-> PersistedToken,
               token_expires_at |-> isoformat(StartTime + LongLife)]
  /\ cfgFile = config
  /\ authEnv = { a \in AuthShapes : a.skew = 0 /\ (a.status = 500 \/ a.keys = TokenKeys) }
  /\ fileOk = TRUE
  /\ inst = [k \in InstanceKeys |->
               IF k = Single
               THEN [created |-> TRUE, access_token |-> config["access_token"],
                     expires_at |-> config["token_expires_at"],
                     came_with |-> config["token_expires_at"]]
               ELSE Uncreated]
  /\ posts = 0
  /\ sync = NoSync
  /\ obs = NoObs
  /\ thr = [t \in ThreadIds |-> Idle]
  /\ granted = {<<config["access_token"], config["token_expires_at"]>>}

Others == <<now, config, authEnv, fileOk, sync, obs>>

\* a thread enters access_token
CallGetToken(t) ==
  /\ thr[t].pc = "idle"
  /\ thr' = [thr EXCEPT ![t] = [Idle EXCEPT !.pc = "check", !.op = "get_token"]]
  /\ UNCHANGED <<Others, cfgFile, inst, posts, granted>>

\* a thread enters handle_401_response with a 401
CallForceRefresh(t) ==
  /\ thr[t].pc = "idle"
  /\ thr' = [thr EXCEPT ![t] = [Idle EXCEPT !.pc = "post", !.op = "force_refresh"]]
  /\ UNCHANGED <<Others, cfgFile, inst, posts, granted>>

\* access_token: the tests on _access_token and _expires_at
CheckToken(t) ==
  /\ thr[t].pc = "check"
  /\ thr' = [thr EXCEPT ![t].pc = IF Fresh(inst[Single]) THEN "return" ELSE "post",
                        ![t].seen = inst[Single].expires_at]
  /\ UNCHANGED <<Others, cfgFile, inst, posts, granted>>

\* update_access_token: requests.post, raise_for_status, response.json()
Post(t) ==
  /\ thr[t].pc = "post"
  /\ posts < MaxPosts
  /\ \E shape \in authEnv :
       LET r == token_endpoint(shape, posts + 1, now)
           pair == <<r.body["access_token"],
                     isoformat(r.body["created_at"] + r.body["expires_in"])>>
       IN /\ posts' = posts + 1
          /\ IF r.status >= 400
             THEN /\ thr' = [thr EXCEPT ![t] = Idle]
                  /\ UNCHANGED granted
             ELSE /\ thr' = [thr EXCEPT ![t].pc = "set_token", ![t].resp = pair]
                  /\ granted' = granted \cup {pair}
  /\ UNCHANGED <<Others, cfgFile, inst>>

\* self._access_token = auth_data["access_token"]
SetToken(t) ==
  /\ thr[t].pc = "set_token"
  /\ inst' = [inst EXCEPT ![Single].access_token = thr[t].resp[1],
                          ![Single].came_with = thr[t].resp[2]]
  /\ thr' = [thr EXCEPT ![t].pc = "set_expiry"]
  /\ UNCHANGED <<Others, cfgFile, posts, granted>>

\* self._expires_at = expires_at.isoformat()
SetExpiry(t) ==
  /\ thr[t].pc = "set_expiry"
  /\ inst' = [inst EXCEPT ![Single].expires_at = thr[t].resp[2]]
  /\ thr' = [thr EXCEPT ![t].pc = "persist", ![t].seen = thr[t].resp[2]]
  /\ UNCHANGED <<Others, cfgFile, posts, granted>>

\* self._stream.update_config(...), with the pair as it is stored by now
Persist(t) ==
  /\ thr[t].pc = "persist"
  /\ cfgFile' = update_config(cfgFile, [access_token |-> inst[Single].access_token,
                                        token_expires_at |-> inst[Single].expires_at])
  /\ thr' = [thr EXCEPT ![t] = IF thr[t].op = "get_token"
                               THEN [thr[t] EXCEPT !.pc = "return"] ELSE Idle]
  /\ UNCHANGED <<Others, inst, posts, granted>>

\* return self._access_token
ReturnToken(t) ==
  /\ thr[t].pc = "return"
  /\ thr' = [thr EXCEPT ![t].pc = "done", ![t].ret = inst[Single].access_token]
  /\ UNCHANGED <<Others, cfgFile, inst, posts, granted>>

\* the caller has used the token
Finish(t) ==
  /\ thr[t].pc = "done"
  /\ thr' = [thr EXCEPT ![t] = Idle]
  /\ UNCHANGED <<Others, cfgFile, inst, posts, granted>>

NextConc ==
  \E t \in ThreadIds :
    \/ CallGetToken(t)
    \/ CallForceRefresh(t)
    \/ CheckToken(t)
    \/ Post(t)
    \/ SetToken(t)
    \/ SetExpiry(t)
    \/ Persist(t)
    \/ ReturnToken(t)
    \/ Finish(t)

SpecConc == InitConc /\ [][NextConc]_vars

(***************************************************************************)
(* Properties                                                              *)
(***************************************************************************)
Auth == inst["BunnyAuthenticator"]

GotToken == obs.op = "get_token" /\ obs.ok

\* C1, as claimed: a token is never returned to a caller when the current time
\* plus 5 minutes is at or past its stored expiry, also right after a refresh.
C1_SafetyMargin ==
  GotToken => /\ Auth.expires_at # NoExpiry
              /\ now + Margin < fromisoformat(Auth.expires_at)

\* C1, amended: a token is returned without a refresh only when its stored
\* expiry lies more than 5 minutes ahead; a call that finds the stored pair
\* missing or within the margin exchanges credentials first and returns the
\* token just stored, with the expiry the endpoint delivered for it, whatever
\* lifetime that is.
C1_MarginOrRefresh ==
  GotToken => /\ obs.ret = Auth.access_token
              /\ obs.ret # NoToken
              /\ obs.posted = 0 => now + Margin < fromisoformat(Auth.expires_at)
              /\ ~obs.fresh0 => obs.posted >= 1
              /\ obs.posted >= 1 => /\ obs.ret = posts
                                    /\ Auth.expires_at = Auth.came_with
                                    /\ Auth.expires_at # NoExpiry

\* a stored token within the margin made the call refresh
C1_Witness ==
  /\ GotToken
  /\ obs.tok0 # NoToken
  /\ obs.posted = 1
  /\ obs.ret # obs.tok0
  /\ now + Margin >= fromisoformat(Auth.expires_at)

\* C2: a get_token call made while now + 5 minutes is before the stored expiry
\* issues no credential exchange and returns the stored token unchanged.
C2_NoRedundantRefresh ==
  (obs.op = "get_token" /\ obs.fresh0) =>
     /\ obs.ok
     /\ obs.posted = 0
     /\ obs.ret = obs.tok0
     /\ Auth.access_token = obs.tok0

\* a token obtained by an exchange is handed out again from the cache
C2_Witness ==
  /\ obs.op = "get_token"
  /\ obs.fresh0
  /\ obs.posted = 0
  /\ obs.ret \in 1..MaxPosts
  /\ now > StartTime

ForcedRefresh == obs.op = "handle_401" /\ obs.ret = 401

\* C5: a forced refresh issues exactly one credential exchange and, when it
\* succeeds, leaves the newly issued token stored with the expiry delivered
\* with it, also when the token stored before was still valid.
C5_ForceRefresh ==
  ForcedRefresh =>
     /\ obs.posted = 1
     /\ obs.ok => /\ Auth.access_token = posts
                  /\ Auth.access_token # obs.tok0
                  /\ Auth.expires_at = Auth.came_with
                  /\ Auth.expires_at # NoExpiry

\* a forced refresh replaced a token that was still valid
C5_Witness ==
  /\ ForcedRefresh
  /\ obs.ok
  /\ obs.fresh0
  /\ obs.posted = 1
  /\ Auth.access_token = posts

\* C6: whatever exchange failed, the stored token is paired with the expiry
\* that was delivered with it, or the next get_token performs a refresh.
C6_NoCorruption ==
  \A k \in InstanceKeys :
    inst[k].created => \/ inst[k].expires_at = inst[k].came_with
                       \/ ~Fresh(inst[k])

FetchedPage == obs.op = "fetch_page"

FirstSend == obs.sends[1]

LastSend == obs.sends[Len(obs.sends)]

DirectFetch(s, sent) ==
  decode(World, s, <<sent>>, graphql_endpoint(sent.shape, s, sent))

\* C4: a fetch whose first send got a 401 and whose retried send got a 200
\* gives the records and the next cursor of that 200 response.
C4_RetryTransparent ==
  (FetchedPage /\ Len(obs.sends) = 2 /\ LastSend.shape.status = 200) =>
     /\ obs.ok = DirectFetch(obs.stream, LastSend).ok
     /\ obs.err = DirectFetch(obs.stream, LastSend).err
     /\ obs.records = DirectFetch(obs.stream, LastSend).records
     /\ obs.next = DirectFetch(obs.stream, LastSend).next

\* a retried send brought the first page with its cursor
C4_Witness ==
  /\ FetchedPage
  /\ Len(obs.sends) = 2
  /\ LastSend.shape = BaseShape
  /\ obs.ok
  /\ Len(obs.records) = PageSize
  /\ obs.next # NoCursor

RECURSIVE Pages(_)
\* the records of pages 1..n, in order
Pages(n) == IF n <= 0 THEN <<>> ELSE Pages(n - 1) \o PageItems(n)

\* C9, for the entity accounts: a page fetch that got a token sends a request,
\* the first one without a cursor and request i + 1 with the cursor of page i;
\* a page the endpoint delivers in full is emitted and its cursor taken up, and
\* the sync is DONE after the last page.
C9_Pagination ==
  (FetchedPage /\ obs.stream = "accounts") =>
     /\ obs.err # "token" => obs.sends # <<>>
     /\ \A i \in 1..Len(sync.requests) : sync.requests[i] = i - 1
     /\ (obs.sends # <<>> /\ LastSend.shape = [BaseShape EXCEPT !.container = "edges"]) =>
          /\ obs.ok
          /\ obs.records = PageItems(Len(sync.requests))
          /\ obs.next = IF Len(sync.requests) < NumPages THEN Len(sync.requests) ELSE NoCursor
          /\ sync.status = IF Len(sync.requests) < NumPages THEN "RUNNING" ELSE "DONE"

\* the same walk holds in the sync of a stream that has BunnyStream's own
\* methods: the requests carry the cursors in turn, the emitted records are
\* those of the fetched pages in page order, and the sync is DONE when the
\* last page gave no next cursor
BunnyStream_Pagination ==
  (sync.status # "IDLE" /\ StreamClass(sync.stream) = "BunnyStream") =>
     /\ \A i \in 1..Len(sync.requests) : sync.requests[i] = i - 1
     /\ sync.status \in {"RUNNING", "DONE"} => sync.emitted = Pages(Len(sync.requests))
     /\ sync.status = "FAILED" => \/ sync.emitted = Pages(Len(sync.requests))
                                  \/ sync.emitted = Pages(Len(sync.requests) - 1)
     /\ sync.status = "RUNNING" => sync.cursor = Len(sync.requests)
     /\ sync.status = "DONE" => /\ sync.cursor = NoCursor
                                /\ FetchedPage /\ obs.ok /\ obs.next = NoCursor

\* every page of such a stream was fetched and the sync is done
BunnyStream_AllPages ==
  /\ sync.status = "DONE"
  /\ sync.stream = "features"
  /\ Len(sync.requests) = NumPages
  /\ sync.emitted = Pages(NumPages)
  /\ Len(sync.emitted) = NumPages * PageSize

NoNextPageShapes ==
  { [BaseShape EXCEPT !.pageInfo = x] : x \in {"absent", "stop_cursor", "stop_nocursor"} }

\* C10: for every stream a response whose pageInfo has hasNextPage = false,
\* with or without endCursor, or that has no pageInfo, gives no next cursor
\* and no failure.
C10_NoNextPage ==
  (FetchedPage /\ obs.sends # <<>> /\ LastSend.shape \in NoNextPageShapes) =>
     /\ obs.ok
     /\ obs.next = NoCursor
     /\ sync.status = "DONE"

\* C7: whatever the interleaving, the token a get_token returns and the expiry
\* the call checked or stored for it were delivered by the same response.
C7_NoHalfUpdatedPair ==
  \A t \in ThreadIds :
    thr[t].pc = "done" => <<thr[t].ret, thr[t].seen>> \in granted

Decoded == obs.op = "decode"

DecodedShape == obs.sends[1].shape

\* the errors by which parse_response rejects a body of the wrong structure
SchemaErrors ==
  { "RuntimeError: Expected dictionary response",
    "RuntimeError: No 'data' field in response",
    "RuntimeError: Response data is null",
    "RuntimeError: No data found for stream",
    "RuntimeError: Stream data is null",
    "RuntimeError: No 'nodes' or 'edges' found in stream data",
    "RuntimeError: Nodes array is null" }

\* C11: for every stream a 200 response whose data node for the entity is null
\* makes the page fail with a schema error.
C11_NullNode ==
  (Decoded /\ DecodedShape = [BaseShape EXCEPT !.node = "null"]) =>
     /\ ~obs.ok
     /\ obs.err \in SchemaErrors

GraphQLErrors ==
  { "RuntimeError: GraphQL errors occurred", "RuntimeError: GraphQL query failed" }

ErrorShapes == { [BaseShape EXCEPT !.top = x] : x \in {"errors", "errors+data"} }

\* C12: for every stream a response with a top-level errors array makes the
\* page fetch fail with a GraphQL error and without records, with or without
\* data next to the errors, and the request is not sent again.
C12_GraphQLErrors ==
  (FetchedPage /\ obs.sends # <<>> /\ LastSend.shape \in ErrorShapes) =>
     /\ ~obs.ok
     /\ obs.err \in GraphQLErrors
     /\ obs.records = <<>>
     /\ sync.status = "FAILED"
     /\ FirstSend.shape \in ErrorShapes => Len(obs.sends) = 1

\* the page that the decoded response answers with
DecodedItems == PageItems(Get(obs.sends[1].variables, "after", NoCursor) + 1)

ContainerShape(x) == [BaseShape EXCEPT !.container = x]

\* C13: the records are the items of nodes when the data node has a nodes
\* array, also next to an edges array; the node of each edge in the order of
\* edges when it has edges only; with neither the page fails with a schema
\* error.
C13_ItemExtraction ==
  Decoded =>
     /\ DecodedShape \in {ContainerShape("nodes"), ContainerShape("both"),
                          ContainerShape("edges")} =>
          /\ obs.ok
          /\ obs.records = DecodedItems
     /\ DecodedShape = ContainerShape("none") =>
          /\ ~obs.ok
          /\ obs.err \in SchemaErrors

\* the same, for the streams that have BunnyStream's own parse_response
BunnyStream_ItemExtraction ==
  (Decoded /\ StreamClass(obs.stream) = "BunnyStream" /\ obs.stream = "features") =>
     /\ DecodedShape \in {ContainerShape("nodes"), ContainerShape("both"),
                          ContainerShape("edges")} =>
          /\ obs.ok
          /\ obs.records = DecodedItems
     /\ DecodedShape = ContainerShape("none") =>
          /\ ~obs.ok
          /\ obs.err = "RuntimeError: No 'nodes' or 'edges' found in stream data"

SparseShapes ==
  { [BaseShape EXCEPT !.container = x, !.sparse = TRUE] : x \in {"nodes", "edges"} }

\* C14: for every stream the records of a page whose item list has null
\* entries are the non-null entries in their order, and the page does not fail.
C14_NullFiltering ==
  (Decoded /\ DecodedShape \in SparseShapes) =>
     /\ obs.ok
     /\ obs.records = DecodedItems
     /\ \A i \in 1..Len(obs.records) : NotNull(obs.records[i])

\* the same, for the streams that have BunnyStream's own parse_response
BunnyStream_NullFiltering ==
  (Decoded /\ StreamClass(obs.stream) = "BunnyStream" /\ obs.stream = "features"
           /\ DecodedShape \in SparseShapes) =>
     /\ obs.ok
     /\ obs.records = DecodedItems

KeyShapes == { [BaseShape EXCEPT !.key = x] : x \in {"camel", "snake", "none"} }

\* C15, as claimed: a response that carries the data under the stream name as
\* configured is decoded by BunnyStream's parse_response.
C15_LookupOrder ==
  (Decoded /\ StreamClass(obs.stream) = "BunnyStream"
           /\ DecodedShape = [BaseShape EXCEPT !.key = "snake"]) =>
     /\ obs.ok
     /\ obs.records = DecodedItems

\* C15, amended: BunnyStream's parse_response looks the data up under the
\* camelCase form of the stream name only; a response that carries the data
\* under another key, the snake_case stream name included, fails with "No data
\* found for stream" and yields nothing.
C15_CamelLookupOnly ==
  (Decoded /\ StreamClass(obs.stream) = "BunnyStream" /\ DecodedShape \in KeyShapes) =>
     LET camel == IF obs.stream = "feature_usages" THEN <<"feature", "Usages">>
                  ELSE StreamName(obs.stream)
         given == CASE DecodedShape.key = "camel" -> camel
                    [] DecodedShape.key = "snake" -> StreamName(obs.stream)
                    [] DecodedShape.key = "none"  -> <<"viewer">>
     IN IF given = camel
        THEN obs.ok /\ obs.records = DecodedItems
        ELSE /\ ~obs.ok
             /\ obs.err = "RuntimeError: No data found for stream"
             /\ obs.records = <<>>

\* data under the snake_case name of a stream of two words was rejected
C15_Witness ==
  /\ Decoded
  /\ obs.stream = "feature_usages"
  /\ DecodedShape = [BaseShape EXCEPT !.key = "snake"]
  /\ ~obs.ok
  /\ obs.err = "RuntimeError: No data found for stream"

Prepared == obs.op = "prepare_request"

\* C16: for every stream a request for the page after a cursor is built, once
\* a token is at hand, and its variables carry after = that cursor.
C16_AfterCursor ==
  (Prepared /\ obs.next # NoCursor /\ obs.err # "token") =>
     /\ obs.ok
     /\ "after" \in DOMAIN obs.sends[1].variables
     /\ obs.sends[1].variables["after"] = obs.next

\* the answers of the authorization endpoint that are no valid token grant
FailingShapes ==
  { a \in AuthShapes : \/ a.status >= 400
                       \/ ~a.json
                       \/ "access_token" \notin a.keys
                       \/ "expires_in" \notin a.keys }

ExchangeFailed ==
  /\ obs.op \in {"get_token", "handle_401"}
  /\ obs.posted >= 1
  /\ authEnv \subseteq FailingShapes

ValidShapes ==
  { a \in AuthShapes : a.status = 200 /\ a.json /\ a.keys = TokenKeys }

ExchangeSucceeded ==
  /\ \/ obs.op = "get_token"
     \/ ForcedRefresh
  /\ obs.posted >= 1
  /\ authEnv \subseteq ValidShapes

\* C18: when update_config fails during a refresh, the get_token or forced
\* refresh that caused the refresh still succeeds, and get_token returns the
\* new token.
C18_PersistenceNotFatal ==
  (ExchangeSucceeded /\ ~fileOk) =>
     /\ obs.ok
     /\ obs.op = "get_token" => obs.ret = posts

PersistedPair ==
  <<Get(cfgFile, "access_token", NoToken), Get(cfgFile, "token_expires_at", NoExpiry)>>

\* C19: as long as update_config does not fail, the pair in the config file
\* is the pair the authenticator holds, whatever refreshes were made.
C19_PersistedIsStored ==
  (fileOk /\ Auth.created) => PersistedPair = <<Auth.access_token, Auth.expires_at>>

\* a call that exchanged credentials successfully leaves the new token and
\* its expiry in the config file; and as long as update_config does not fail,
\* the pair in the file is the pair the authenticator holds whenever that pair
\* is a token with the expiry delivered with it
SuccessfulRefreshPersisted ==
  /\ (obs.op \in {"get_token", "handle_401"} /\ obs.ok /\ obs.posted >= 1) =>
        /\ Auth.access_token = posts
        /\ PersistedPair = <<posts, Auth.came_with>>
  /\ (fileOk /\ Auth.created /\ Auth.expires_at = Auth.came_with) =>
        PersistedPair = <<Auth.access_token, Auth.expires_at>>

\* a second refresh in a row was persisted
SecondRefreshPersisted ==
  /\ obs.op \in {"get_token", "handle_401"}
  /\ obs.ok
  /\ obs.posted >= 1
  /\ posts >= 2
  /\ obs.tok0 = posts - 1
  /\ PersistedPair = <<posts, Auth.expires_at>>

\* one step of a sync that aborts on the page that fails: the failing page adds
\* no record and at most its own request, a page that does not fail adds its
\* request and only appends records, and a sync that is DONE or FAILED stays
\* as it is until a new sync starts from nothing
AbortOnFailure ==
  /\ sync'.status \in {"RUNNING", "DONE", "FAILED"}
  /\ (sync.status = "RUNNING" /\ sync'.status = "FAILED") =>
        /\ sync'.emitted = sync.emitted
        /\ Len(sync'.requests) <= Len(sync.requests) + 1
  /\ (sync.status = "RUNNING" /\ sync'.status # "FAILED") =>
        /\ Len(sync'.requests) = Len(sync.requests) + 1
        /\ Len(sync'.emitted) >= Len(sync.emitted)
        /\ SubSeq(sync'.emitted, 1, Len(sync.emitted)) = sync.emitted
  /\ sync.status \in {"DONE", "FAILED"} =>
        \/ sync' = sync
        \/ /\ sync'.status = "RUNNING"
           /\ sync'.requests = <<>>
           /\ sync'.emitted = <<>>

\* C20: a sync ends in DONE or FAILED only; the page that fails emits no
\* record, no page is requested after it, and what was emitted before stays.
C20_AbortOnFailure == [][AbortOnFailure]_vars

\* the same, for the syncs of the streams that have BunnyStream's own methods
BunnyStream_AbortOnFailure ==
  [][sync'.stream \in {"features", "feature_usages"} => AbortOnFailure]_vars

MaxBookmarkAge == 2

\* no starting point: Python's None
NoStart == <<>>

\* the replication-key values a persisted state may hold for a stream
Bookmarks == {NoStart} \cup { isoformat(StartTime - d) : d \in 1..MaxBookmarkAge }

start_date == isoformat(StartTime - MaxBookmarkAge - 1)

incremental_sync(cfg) == Get(cfg, "incremental_sync", FALSE)

get_starting_replication_key_value(cfg, bookmark) == NoStart

get_starting_timestamp(cfg, bookmark) == NoStart

StartingMethods == {"get_starting_replication_key_value", "get_starting_timestamp"}

GetStartingPoint(s, m, bookmark) ==
  /\ obs' = [NoObs EXCEPT !.op = m, !.stream = s, !.next = bookmark,
               !.ret = IF m = "get_starting_timestamp"
                       THEN get_starting_timestamp(config, bookmark)
                       ELSE get_starting_replication_key_value(config, bookmark)]
  /\ UNCHANGED <<now, config, cfgFile, authEnv, fileOk, inst, posts, sync, thr, granted>>

NextStart ==
  \E s \in StreamIds : \E m \in StartingMethods : \E b \in Bookmarks :
     GetStartingPoint(s, m, b)

StartConfigs ==
  LET base == { [client_id |-> 1], [client_id |-> 1, start_date |-> start_date] }
  IN base \cup { c @@ [incremental_sync |-> e] : c \in base, e \in BOOLEAN }

InitStart ==
  /\ now = StartTime
  /\ config \in StartConfigs
  /\ cfgFile = config
  /\ authEnv = AuthShapes
  /\ fileOk = TRUE
  /\ inst = [k \in InstanceKeys |-> Uncreated]
  /\ posts = 0
  /\ sync = NoSync
  /\ obs = NoObs
  /\ thr = <<>>
  /\ granted = {}

SpecStart == InitStart /\ [][NextStart]_vars

AskedStart == obs.op \in StartingMethods

\* the starting point the setting calls for: the bookmark of the persisted
\* state, else the start_date of the config, when incremental_sync is on;
\* none when it is off
HonoredStart ==
  IF incremental_sync(config)
  THEN IF obs.next # NoStart THEN obs.next ELSE Get(config, "start_date", NoStart)
  ELSE NoStart

\* C23: the starting replication-key value and the starting timestamp are the
\* ones of the persisted state or the config when incremental_sync is enabled,
\* and None when it is disabled, whatever the state holds.
C23_StartingPoint ==
  AskedStart => obs.ret = HonoredStart

\* the starting point is None under every setting, state and config
StartingPointIsNone ==
  AskedStart => obs.ret = NoStart

\* incremental_sync is on, the state holds a bookmark, the answer is None
IgnoredBookmark ==
  /\ AskedStart
  /\ incremental_sync(config)
  /\ obs.next # NoStart
  /\ obs.ret = NoStart

HeaderBuilt == Prepared /\ obs.err # "token"

Unexpired(i) == i.expires_at # NoExpiry /\ now < fromisoformat(i.expires_at)

\* C24: the bearer token put into the Authorization header of a request is
\* not expired when the header is built, be it a token loaded from the
\* persisted config or one just received from the authorization endpoint.
C24_HeaderTokenUnexpired ==
  HeaderBuilt => Unexpired(Auth)

\* a header carries a token that its own exchange delivered already expired
ExpiredHeaderToken ==
  /\ HeaderBuilt
  /\ obs.posted >= 1
  /\ obs.ret = Auth.access_token
  /\ Auth.expires_at = isoformat(now)

\* a header built without an exchange carries a stored token that is not
\* expired: a token of the persisted config or of an earlier exchange is
\* checked against the clock before it is used
StoredHeaderTokenUnexpired ==
  (HeaderBuilt /\ obs.posted = 0) => Unexpired(Auth)

Exchanged == obs.op \in {"get_token", "handle_401"} /\ obs.posted >= 1

\* the answers that carry a token and expires_in, with or without created_at
CreatedAtOptional ==
  { a \in AuthShapes : a.status = 200 /\ a.json /\ {"access_token", "expires_in"} \subseteq a.keys }

\* C25: an exchange answered with a token and expires_in succeeds, and the
\* stored expiry is issued_at + expires_in, issued_at being created_at when
\* the answer carries it and the local clock when it does not.
C25_IssuedAtFallback ==
  (Exchanged /\ fileOk /\ authEnv \subseteq CreatedAtOptional) =>
     /\ obs.ok
     /\ \A a \in authEnv : Auth.expires_at = isoformat(now + a.expires_in)

\* when the answer carries created_at, the stored expiry is created_at +
\* expires_in
ExpiryFromCreatedAt ==
  (Exchanged /\ fileOk /\ authEnv \subseteq ValidShapes) =>
     /\ obs.ok
     /\ \A a \in authEnv : Auth.expires_at = isoformat(now + a.expires_in)

\* an answer without created_at made the exchange fail, and the call with it
NoCreatedAtFails ==
  /\ Exchanged
  /\ fileOk
  /\ \A a \in authEnv : "created_at" \notin a.keys /\ a \in CreatedAtOptional
  /\ ~obs.ok
  /\ ~Auth.created

ErrorRaised == obs.op = "parse_response" /\ obs.msg # <<>>

ErrorResponse == obs.sends[1].response

ErrorsArray == ErrorResponse.body.v["errors"].v

GraphQLErrorRaised ==
  /\ ErrorRaised
  /\ ErrorResponse.status = 200
  /\ ErrorResponse.json
  /\ "errors" \in DOMAIN ErrorResponse.body.v

\* the message says val after the literal text lit
Says(lit, val) == \E i \in 1..Len(obs.msg) : obs.msg[i] = Part(lit, val)

\* C26: for every entry of the errors array the message of the raised error
\* contains the entry's path, its elements as strings joined with "." in their
\* order (["accounts", 3, "name"] gives "accounts.3.name"), and the entry's
\* message, locations and extensions, each when the entry has it.
C26_ErrorDetails ==
  GraphQLErrorRaised =>
    \A i \in 1..Len(ErrorsArray) :
      LET e == ErrorsArray[i].v IN
      /\ "path" \in DOMAIN e =>
           /\ e["path"].v = << JStr("accounts"), JInt(3), JStr("name") >> =>
                 Says("  Path: ", "accounts.3.name")
           /\ e["path"].v = << JStr("viewer") >> => Says("  Path: ", "viewer")
      /\ "message" \in DOMAIN e => Says("- ", e["message"].v)
      /\ "locations" \in DOMAIN e => Says("  Locations: ", e["locations"])
      /\ "extensions" \in DOMAIN e => Says("  Extensions: ", e["extensions"])

\* an error raised for two entries, the first with all four keys and the path
\* ["accounts", 3, "name"]
C26_Witness ==
  /\ GraphQLErrorRaised
  /\ Len(ErrorsArray) = MaxErrors
  /\ DOMAIN ErrorsArray[1].v = {"message", "path", "locations", "extensions"}
  /\ ErrorsArray[1].v["path"].v = << JStr("accounts"), JInt(3), JStr("name") >>
  /\ Says("  Path: ", "accounts.3.name")

ErrorRequest == obs.sends[1].request

\* C27: the error raised for a response with an errors array carries the
\* query and the variables of the request that was sent for the page.
C27_CarriesRequest ==
  GraphQLErrorRaised =>
    /\ Says("\nQuery: ", ErrorRequest.query)
    /\ Says("Variables: ", ErrorRequest.variables)

\* the message has a query and variables exactly when the response body has
\* them, and then the body's
CarriesWhatTheBodyEchoes ==
  GraphQLErrorRaised =>
    /\ \A x \in {ErrorRequest.query, JStr("normalized")} :
         Says("\nQuery: ", x) <=> /\ "query" \in DOMAIN ErrorResponse.body.v
                                  /\ ErrorResponse.body.v["query"] = x
    /\ \A x \in {ErrorRequest.variables, EmptyDict} :
         Says("Variables: ", x) <=> /\ "variables" \in DOMAIN ErrorResponse.body.v
                                    /\ ErrorResponse.body.v["variables"] = x

\* an error for a body with errors only: the message names no query
NoQueryInMessage ==
  /\ GraphQLErrorRaised
  /\ DOMAIN ErrorResponse.body.v = {"errors"}
  /\ \A i \in 1..Len(obs.msg) : obs.msg[i].lit # "\nQuery: " /\ obs.msg[i].lit # "Variables: "

TransportError == "RuntimeError: HTTP request failed"

Is2xx(status) == status \in 200..299

\* C28: a response whose status is not 2xx yields no records and no next
\* cursor and fails the page with the transport error; a response whose
\* status is 2xx is not rejected for its status: its body is decoded.
C28_StatusGate ==
  Decoded =>
    /\ ~Is2xx(DecodedShape.status) =>
         /\ ~obs.ok
         /\ obs.err = TransportError
         /\ obs.records = <<>>
         /\ obs.next = NoCursor
    /\ Is2xx(DecodedShape.status) => obs.err # TransportError

\* BunnyStream's own parse_response rejects every status other than 200, 2xx
\* or not, before it reads the body
BunnyStream_StatusGate ==
  (Decoded /\ StreamClass(obs.stream) = "BunnyStream") =>
    /\ DecodedShape.status # 200 =>
         /\ ~obs.ok
         /\ obs.err = TransportError
         /\ obs.records = <<>>
         /\ obs.next = NoCursor
    /\ DecodedShape.status = 200 => obs.err # TransportError

\* a 201 with the page in its body was rejected for its status
Rejected2xx ==
  /\ Decoded
  /\ StreamClass(obs.stream) = "BunnyStream"
  /\ DecodedShape = [BaseShape EXCEPT !.status = 201]
  /\ obs.err = TransportError

\* a 500 with a page in its body gave the records of that page
RecordsFromNon2xx ==
  /\ Decoded
  /\ DecodedShape = [BaseShape EXCEPT !.status = 500]
  /\ obs.stream = "subscriptions"
  /\ obs.ok
  /\ obs.records # <<>>
  /\ obs.next # NoCursor

\* a sequence of characters that is the start of text, ExcerptLimit long at most
IsExcerpt(x, text) ==
  /\ Len(x) <= ExcerptLimit
  /\ Len(x) <= Len(text)
  /\ x = SubSeq(text, 1, Len(x))

BodyQuoted ==
  /\ ErrorRaised
  /\ \/ ErrorResponse.status # 200
     \/ ~ErrorResponse.json

\* the part of the raised message that quotes the response text
Quoted == obs.msg[Len(obs.msg)].val

\* C29: the error raised for a body that is not JSON and the error raised for
\* a failed status quote an excerpt of the body, at most its first 1000
\* characters, whatever the length of the body.
C29_BoundedExcerpt ==
  BodyQuoted => IsExcerpt(Quoted, ErrorResponse.text)

\* the decode error quotes the first 1000 characters of the body, or all of a
\* shorter body
DecodeExcerptBounded ==
  (BodyQuoted /\ ErrorResponse.status = 200) =>
     /\ IsExcerpt(Quoted, ErrorResponse.text)
     /\ Len(Quoted) = IF Len(ErrorResponse.text) < ExcerptLimit
                      THEN Len(ErrorResponse.text) ELSE ExcerptLimit

\* the error for a failed status quotes the whole body
TransportQuotesWholeBody ==
  (BodyQuoted /\ ErrorResponse.status # 200) => Quoted = ErrorResponse.text

\* a transport error quotes a body of more than 1000 characters in full
UnboundedQuote ==
  /\ BodyQuoted
  /\ ErrorResponse.status = 500
  /\ Len(ErrorResponse.text) > ExcerptLimit
  /\ Len(Quoted) > ExcerptLimit

AskedValid == obs.op = "is_token_valid"

\* C30: is_token_valid changes neither the stored token, nor the stored
\* expiry, nor the config in memory or in the file, and sends no POST to the
\* authorization endpoint; its answer is whether a token and an expiry are
\* stored and the clock is before that expiry.
C30_IsValidPure ==
  [][obs'.op = "is_token_valid" =>
       /\ inst' = inst
       /\ config' = config
       /\ cfgFile' = cfgFile
       /\ posts' = posts
       /\ obs'.posted = 0
       /\ obs'.ret = /\ Auth.access_token # NoToken
                     /\ Auth.expires_at # NoExpiry
                     /\ now < fromisoformat(Auth.expires_at)]_vars

\* is_token_valid answered False for a stored token that has expired, and the
\* expired pair is still stored
C30_Witness ==
  /\ AskedValid
  /\ obs.ret = FALSE
  /\ obs.posted = 0
  /\ Auth.access_token # NoToken
  /\ Auth.expires_at # NoExpiry
  /\ now >= fromisoformat(Auth.expires_at)

FailedTokenCall == obs.op \in {"get_token", "handle_401"} /\ ~obs.ok

\* C22, as claimed: a get_token or forced refresh that fails has issued
\* exactly one POST to the authorization endpoint.
C22_OnePostPerFailure ==
  FailedTokenCall => obs.posted = 1

\* C22, amended: a failed exchange is never followed by another POST in the
\* same call. A failing call on an authenticator that exists has issued one
\* POST; a failing get_token that first had to build the authenticator has
\* issued one, or two when the constructor's exchange succeeded and its token
\* was already within the margin, so that access_token exchanged again.
C22_NoInternalRetry ==
  [][(posts' > posts /\ ~obs'.ok) =>
        /\ posts' - posts <= IF Auth.created THEN 1 ELSE 2
        /\ obs'.op = "handle_401" => posts' - posts = 1
        /\ posts' - posts = 2 =>
             /\ obs'.op = "get_token"
             /\ Auth'.created
             /\ Auth'.access_token \in {posts + 1, posts + 2}]_vars

\* a get_token built the authenticator with one exchange and failed in a second
C22_Witness ==
  /\ FailedTokenCall
  /\ obs.op = "get_token"
  /\ obs.posted = 2
  /\ Auth.created

\* the page that the decoded response answers with
DecodedPage == Get(obs.sends[1].variables, "after", NoCursor) + 1

\* the response reports hasNextPage = true with an endCursor
ReportsNextPage == DecodedShape.pageInfo = "honest" /\ DecodedPage < NumPages

\* C31: for every stream name, names of several words included, a page that
\* yields records and whose pageInfo reports hasNextPage = true with an
\* endCursor yields that endCursor as next cursor.
C31_CursorFromSameNode ==
  (Decoded /\ obs.ok /\ obs.records # <<>> /\ ReportsNextPage) =>
     obs.next = DecodedPage

\* the same, for a stream with BunnyStream's own methods whose name is one word
BunnyStream_OneWordCursor ==
  (Decoded /\ obs.stream = "features" /\ obs.ok /\ obs.records # <<>> /\ ReportsNextPage) =>
     obs.next = DecodedPage

\* the first page of feature_usages, found under featureUsages, gave its
\* records and no next cursor although it reports a next page
CursorLostForTwoWords ==
  /\ Decoded
  /\ obs.stream = "feature_usages"
  /\ DecodedShape = BaseShape
  /\ obs.ok
  /\ obs.records = DecodedItems
  /\ ReportsNextPage
  /\ obs.next = NoCursor

Retried == FetchedPage /\ Len(obs.sends) = 2

\* the exchanges made between the two sends of a retried fetch. Every exchange
\* of a run in which a retry happens delivers a token, numbered by its POST;
\* the token of the persisted config was issued before the first POST.
ExchangesBetweenSends ==
  LastSend.token - (IF FirstSend.token = PersistedToken THEN 0 ELSE FirstSend.token)

\* C32, as claimed: a fetch that handles a 401 makes exactly one credential
\* exchange between the first send and the retried send, whatever lifetime
\* the delivered token has.
C32_OneExchangePer401 ==
  Retried => ExchangesBetweenSends = 1

\* C32, amended: handle_401_response makes one exchange, and the
\* access_token read for the new header makes a second one exactly when the
\* token just delivered is within 5 minutes of its expiry.
C32_OneOrTwoExchanges ==
  Retried =>
    /\ authEnv \subseteq ValidShapes
    /\ ExchangesBetweenSends \in {1, 2}
    /\ ExchangesBetweenSends = 2 <=> \A a \in authEnv : a.expires_in - a.skew <= Margin

\* a 401 was handled with two exchanges: the token of the first had a short
\* lifetime
C32_Witness ==
  /\ Retried
  /\ ExchangesBetweenSends = 2
  /\ \A a \in authEnv : a.expires_in = ShortLife
  /\ LastSend.token = Auth.access_token

\* C33: for every stream a page request is built, once a token is at hand,
\* for the first page and for every later page, and its variables carry
\* sort = "id".
C33_SortById ==
  HeaderBuilt =>
     /\ obs.ok
     /\ "sort" \in DOMAIN obs.sends[1].variables
     /\ obs.sends[1].variables["sort"] = "id"

\* the same, for the streams that keep BunnyStream.get_graphql_variables
BunnyStream_SortById ==
  (HeaderBuilt /\ StreamClass(obs.stream) # "AccountsStream") =>
     /\ obs.ok
     /\ "sort" \in DOMAIN obs.sends[1].variables
     /\ obs.sends[1].variables["sort"] = "id"

\* the variables that AccountsStream's own method builds have no sort, for
\* no page
AccountsStream_NoSort ==
  \A c \in Cursors : "sort" \notin DOMAIN AccountsStream_variables(c)

\* the request for a later page of accounts was not built
NoRequestForAccounts ==
  /\ HeaderBuilt
  /\ obs.stream = "accounts"
  /\ obs.next # NoCursor
  /\ ~obs.ok
  /\ obs.err = "TypeError"
  /\ obs.sends = <<>>

\* C34: for every stream the request for the first page is built, once a
\* token is at hand, and its variables have no after entry, nor a placeholder
\* in its place.
C34_NoAfterOnFirstPage ==
  (HeaderBuilt /\ obs.next = NoCursor) =>
     /\ obs.ok
     /\ "after" \notin DOMAIN obs.sends[1].variables

\* the same, for the streams that keep BunnyStream.get_graphql_variables
BunnyStream_NoAfterOnFirstPage ==
  (HeaderBuilt /\ obs.next = NoCursor /\ StreamClass(obs.stream) # "AccountsStream") =>
     /\ obs.ok
     /\ "after" \notin DOMAIN obs.sends[1].variables

\* AccountsStream's own method puts the text "null" in the place of a missing
\* cursor
AccountsStream_Placeholder ==
  /\ "after" \in DOMAIN AccountsStream_variables(NoCursor)
  /\ AccountsStream_variables(NoCursor)["after"] = "null"

\* the request for the first page of accounts was not built
NoFirstRequestForAccounts ==
  /\ HeaderBuilt
  /\ obs.stream = "accounts"
  /\ obs.next = NoCursor
  /\ ~obs.ok
  /\ obs.err = "TypeError"

MoreWithoutCursor ==
  { [BaseShape EXCEPT !.pageInfo = x] : x \in {"more_null", "more_missing"} }

\* C35: get_next_page_token of BunnyStream and of AccountsStream gives a
\* cursor only for a pageInfo whose hasNextPage is true, and then its
\* endCursor; with hasNextPage true and endCursor null or missing it gives
\* None and the page does not fail, which ends the sync in DONE.
C35_NextPageToken ==
  (Decoded /\ StreamClass(obs.stream) \in {"BunnyStream", "AccountsStream"}) =>
     /\ obs.next # NoCursor =>
          /\ ReportsNextPage
          /\ obs.next = DecodedPage
     /\ DecodedShape \in MoreWithoutCursor =>
          /\ obs.ok
          /\ obs.next = NoCursor

\* a page of features with hasNextPage true and no endCursor gave its records
\* and no next cursor
C35_Witness ==
  /\ Decoded
  /\ obs.stream = "features"
  /\ DecodedShape = [BaseShape EXCEPT !.pageInfo = "more_missing"]
  /\ obs.ok
  /\ obs.records = DecodedItems
  /\ obs.next = NoCursor

\* in a sync of a stream with BunnyStream's get_next_page_token such a page is
\* the last one: the sync is DONE
BunnyStream_DoneWithoutCursor ==
  (FetchedPage /\ obs.sends # <<>> /\ StreamClass(obs.stream) = "BunnyStream"
               /\ LastSend.shape \in MoreWithoutCursor) =>
     /\ obs.ok
     /\ sync.status = "DONE"

\* the constructor finds no token it can use in the config
NothingToReuse ==
  \/ Get(config, "access_token", NoToken) = NoToken
  \/ Get(config, "token_expires_at", NoExpiry) = NoExpiry
  \/ now >= fromisoformat(Get(config, "token_expires_at", NoExpiry))

\* C36: building the authenticator sends one POST to the authorization
\* endpoint when the config holds no access_token, no token_expires_at, or a
\* token_expires_at at or before the clock, and none otherwise; a persisted
\* token that is not expired becomes the stored pair with its expiry, and the
\* config and its file stay as they are.
C36_StartupReuse ==
  [][(obs'.op = "authenticator" /\ ~Auth.created) =>
       /\ posts' - posts = IF NothingToReuse THEN 1 ELSE 0
       /\ ~NothingToReuse =>
            /\ obs'.ok
            /\ Auth'.created
            /\ Auth'.access_token = config["access_token"]
            /\ Auth'.expires_at = config["token_expires_at"]
            /\ config' = config
            /\ cfgFile' = cfgFile]_vars

\* the authenticator was built some minutes after start-up from a persisted
\* token that is not expired, without a POST
C36_Witness ==
  /\ obs.op = "authenticator"
  /\ obs.ok
  /\ posts = 0
  /\ now > StartTime
  /\ Auth.created
  /\ Auth.access_token = PersistedToken
  /\ Auth.expires_at = isoformat(StartTime + LongLife)

\* the authenticator was built with an exchange because the persisted token
\* expires at this very minute
ExchangeAtExpiry ==
  /\ obs.op = "authenticator"
  /\ obs.posted = 1
  /\ obs.tok0 = PersistedToken
  /\ Get(config, "token_expires_at", NoExpiry) = isoformat(now)

\* what is_token_valid says of the pair that stream s finds stored
StoredPairValid(s) ==
  /\ Stored(s).access_token # NoToken
  /\ Stored(s).expires_at # NoExpiry
  /\ now < fromisoformat(Stored(s).expires_at)

\* C37: a get_token made in a state where is_token_valid is false exchanges
\* credentials before it returns, be it with a token or with an error; so a
\* get_token that returns without an exchange was made in a state where
\* is_token_valid is true, and it returns the stored token.
C37_InvalidMeansRefresh ==
  [][obs'.op = "get_token" =>
       /\ ~StoredPairValid(obs'.stream) => posts' > posts
       /\ posts' = posts =>
            /\ StoredPairValid(obs'.stream)
            /\ obs'.ok
            /\ obs'.ret = Stored(obs'.stream).access_token]_vars

\* a get_token found the expired token of the persisted config and exchanged
C37_Witness ==
  /\ obs.op = "get_token"
  /\ obs.posted >= 1
  /\ obs.tok0 = PersistedToken
  /\ now >= fromisoformat(Get(config, "token_expires_at", NoExpiry))
  /\ obs.ok
  /\ obs.ret = posts

\* every credential exchange of this run fails: the endpoint gives no
\* complete grant, or the config file cannot be rewritten
RefreshFails == ~fileOk \/ ~(authEnv \subseteq ValidShapes)

\* what C38 says of the state after a step
FailedRefreshEndsFetch ==
  /\ (FetchedPage /\ obs.sends # <<>> /\ FirstSend.shape.status = 401 /\ RefreshFails) =>
        /\ Len(obs.sends) = 1
        /\ ~obs.ok
        /\ obs.err = "RuntimeError: Failed to refresh token"
        /\ obs.records = <<>>
        /\ sync.status = "FAILED"
  /\ (ForcedRefresh /\ RefreshFails) => ~obs.ok

\* C38: when the refresh after a 401 fails, handle_401_response raises, the
\* request is not sent again and the page fetch fails; called with a response
\* of another status, handle_401_response sends no POST and changes nothing.
C38_FailedRefresh ==
  [][/\ FailedRefreshEndsFetch'
     /\ (obs'.op = "handle_401" /\ obs'.ret # 401) =>
          /\ obs'.ok
          /\ posts' = posts
          /\ inst' = inst
          /\ config' = config
          /\ cfgFile' = cfgFile]_vars

\* a fetch with the persisted token got a 401, the refresh failed, and the
\* fetch failed after its one send
C38_Witness ==
  /\ FetchedPage
  /\ Len(obs.sends) = 1
  /\ FirstSend.shape.status = 401
  /\ FirstSend.token = PersistedToken
  /\ RefreshFails
  /\ obs.posted = 1
  /\ obs.err = "RuntimeError: Failed to refresh token"
  /\ sync.status = "FAILED"

\* handle_401_response was called with a 200 on a built authenticator
NoRefreshFor200 ==
  /\ obs.op = "handle_401"
  /\ obs.ret = 200
  /\ obs.ok
  /\ obs.posted = 0
  /\ Auth.created

(***************************************************************************)
(* The frame of update_config over any sequence of refreshes.              *)
(***************************************************************************)
\* the keys the authenticator passes as new_fields (client.py:87-90)
RefreshFields == {"access_token", "token_expires_at"}

\* C39: whatever step rewrites the config file, every key of the file that is
\* not a key of new_fields is in the file afterwards with the value it had,
\* and no key outside new_fields is added; this holds step after step, so over
\* any sequence of calls.
C39_OtherKeysKept ==
  [][/\ \A k \in DOMAIN cfgFile \ RefreshFields :
          k \in DOMAIN cfgFile' /\ cfgFile'[k] = cfgFile[k]
     /\ DOMAIN cfgFile' \subseteq DOMAIN cfgFile \cup RefreshFields]_vars

\* the file was rewritten by a second refresh and still holds client_id
C39_Witness ==
  /\ posts >= 2
  /\ Get(cfgFile, "access_token", NoToken) = posts
  /\ "token_expires_at" \in DOMAIN cfgFile
  /\ Get(cfgFile, "client_id", 0) = 1
  /\ cfgFile # config

\* a file that held no token pair gets one next to client_id
PairAddedToFile ==
  /\ DOMAIN config = {"client_id"}
  /\ DOMAIN cfgFile = {"client_id"} \cup RefreshFields
  /\ cfgFile["client_id"] = config["client_id"]
====
